---------------------------- MODULE Spec2Model ----------------------------
(***************************************************************************)
(* Model of rotkehlchen/chain/ethereum/uniswap/uniswap.py: the Uniswap     *)
(* module's trade-history sync (get_trades / get_trades_history /          *)
(* _get_trades), its offset-paginated subgraph loops, and the derivation   *)
(* of trades from swaps (swaps_to_trades / _tx_swaps_to_trades).           *)
(*                                                                         *)
(* Requests run as gevent greenlets: a request gives up control only      *)
(* where it waits, at the trades lock and at a subgraph query, so an       *)
(* action runs a request from one such point to the next.                  *)
(*                                                                         *)
(* Several specifications share the module:                                *)
(*   Spec      concurrent sync requests against the range and swap stores  *)
(*   PageSpec  one pagination loop against a query source                  *)
(*   ConvSpec  swaps_to_trades applied to a bounded list of swaps          *)
(*   TxSpec    _tx_swaps_to_trades applied to one transaction's swaps      *)
(*   PriceSpec _update_assets_prices_in_address_balances on pool balances  *)
(*   BalSpec   get_balances: positions, the two price lookups, the update  *)
(***************************************************************************)
EXTENDS Integers, Sequences, FiniteSets, TLC

VARIABLES
    graph,              \* self.graph is not None (set once in __init__)
    trades_lock,        \* self.trades_lock: its holder, or NoProc
    used_query_ranges,  \* DB: address -> NoRange or <<start_ts, end_ts>>
    amm_swaps,          \* DB: the stored AMMSwap records
    proc,               \* per request: position and locals of its call
    max_to,             \* history: the largest to_timestamp a sync call has named so far
    pager,              \* PageSpec: the state of one pagination loop
    conv,               \* ConvSpec, TxSpec: input and output of the conversion
    bal                 \* PriceSpec, BalSpec: pool balances and the two price maps

vars == <<graph, trades_lock, used_query_ranges, amm_swaps, proc, max_to, pager, conv, bal>>

-----------------------------------------------------------------------------
(* Bounds *)

\* page size of the subgraph queries (1000 in the program, scaled down)
GRAPH_QUERY_LIMIT == 2

\* largest timestamp a request may name
MaxTs == 2

\* most records the static source of PageSpec holds
MaxRecords == 5

\* most pages a non-static source of PageSpec is asked for
MaxPages == 4

\* most swaps in an input of swaps_to_trades
MaxSwaps == 3

\* most pools in the balances handed to the price update
MaxPools == 2

-----------------------------------------------------------------------------
(* FVal: non-negative decimals as reduced fractions <<numerator, denominator>> *)

RECURSIVE GCD(_, _)
GCD(a, b) == IF b = 0 THEN a ELSE GCD(b, a % b)

FVal(n, d) == LET g == GCD(n, d) IN <<n \div g, d \div g>>

ZERO == <<0, 1>>

FGtZero(x) == x[1] > 0

FHalf(x) == FVal(x[1], 2 * x[2])

\* x / y for y # ZERO
FDiv(x, y) == FVal(x[1] * y[2], x[2] * y[1])

\* x * y
FMul(x, y) == FVal(x[1] * y[1], x[2] * y[2])

\* x + y
FAdd(x, y) == FVal(x[1] * y[2] + y[1] * x[2], x[2] * y[2])

Min2(a, b) == IF a <= b THEN a ELSE b

-----------------------------------------------------------------------------
(* Trade derivation: add_trades_from_swaps, _tx_swaps_to_trades *)

NoTrades == [err |-> FALSE, trades |-> <<>>]

DivisionError == [err |-> TRUE, trades |-> <<>>]

\* the quotient the other way round
Rate_Inverted(bought_amount, sold_amount) == FDiv(sold_amount, bought_amount)

\* rate = bought_amount / sold_amount, for sold_amount # ZERO
Rate(bought_amount, sold_amount) == FDiv(bought_amount, sold_amount)

\* the loop of add_trades_from_swaps over quote_assets[k..]; a zero
\* sold_amount raises (division by zero)
RECURSIVE AddTradesLoop(_, _, _, _, _, _, _)
AddTradesLoop(swaps, trades, bought_amount, quote_assets, token, trade_index, k) ==
    IF k > Len(quote_assets) THEN [err |-> FALSE, trades |-> trades]
    ELSE LET quote_asset == quote_assets[k][1]
             sold_amount == quote_assets[k][2]
         IN IF sold_amount = ZERO THEN DivisionError
            ELSE LET trade == [trade_type |-> "BUY",
                               base_asset |-> token,
                               quote_asset |-> quote_asset,
                               amount |-> bought_amount,
                               rate |-> Rate(bought_amount, sold_amount),
                               swaps |-> swaps,
                               trade_index |-> trade_index]
                 IN AddTradesLoop(swaps, Append(trades, trade), bought_amount,
                                  quote_assets, token, trade_index + 1, k + 1)

\* the bought amount never halved
add_trades_from_swaps_Whole(swaps, trades, both_in, quote_assets, token_amount, token, trade_index) ==
    AddTradesLoop(swaps, trades, token_amount, quote_assets, token, trade_index, 1)

add_trades_from_swaps(swaps, trades, both_in, quote_assets, token_amount, token, trade_index) ==
    LET bought_amount == IF both_in THEN FHalf(token_amount) ELSE token_amount
    IN AddTradesLoop(swaps, trades, bought_amount, quote_assets, token, trade_index, 1)

BothIn(swaps) == FGtZero(swaps[1].amount0_in) /\ FGtZero(swaps[1].amount1_in)

BothOut(swaps) ==
    FGtZero(swaps[Len(swaps)].amount0_out) /\ FGtZero(swaps[Len(swaps)].amount1_out)

\* both inbound amounts halved whatever the outbound side
QuoteAssets_AlwaysHalved(swaps) ==
    LET first == swaps[1]
    IN IF BothIn(swaps)
       THEN << <<first.token0, FHalf(first.amount0_in)>>,
               <<first.token1, FHalf(first.amount1_in)>> >>
       ELSE IF FGtZero(first.amount0_in)
       THEN << <<first.token0, first.amount0_in>> >>
       ELSE << <<first.token1, first.amount1_in>> >>

\* quote_assets: the (asset, sold amount) pairs of lines 294-302
QuoteAssets(swaps) ==
    LET first == swaps[1]
        both_out == BothOut(swaps)
    IN IF BothIn(swaps)
       THEN << <<first.token0,
                 IF ~both_out THEN first.amount0_in ELSE FHalf(first.amount0_in)>>,
               <<first.token1,
                 IF ~both_out THEN first.amount1_in ELSE FHalf(first.amount1_in)>> >>
       ELSE IF FGtZero(first.amount0_in)
       THEN << <<first.token0, first.amount0_in>> >>
       ELSE << <<first.token1, first.amount1_in>> >>

\* the index not advanced past the first base leg
NextTradeIndex_Reset(trade_index, trades) == trade_index

\* trade_index += len(trades)
NextTradeIndex(trade_index, trades) == trade_index + Len(trades)

\* _tx_swaps_to_trades for a non-empty list of one transaction's swaps
tx_swaps_to_trades(swaps) ==
    LET last == swaps[Len(swaps)]
        both_in == BothIn(swaps)
        quote_assets == QuoteAssets(swaps)
        leg0 == IF FGtZero(last.amount0_out)
                THEN add_trades_from_swaps(swaps, <<>>, both_in, quote_assets,
                                           last.amount0_out, last.token0, 0)
                ELSE NoTrades
        trade_index == IF FGtZero(last.amount0_out)
                       THEN NextTradeIndex(0, leg0.trades) ELSE 0
    IN IF leg0.err THEN DivisionError
       ELSE IF FGtZero(last.amount1_out)
       THEN add_trades_from_swaps(swaps, leg0.trades, both_in, quote_assets,
                                  last.amount1_out, last.token1, trade_index)
       ELSE leg0

-----------------------------------------------------------------------------
(* Grouping: swaps_to_trades *)

\* the sort key (timestamp, -log_index) of line 423, compared as tuples
KeyGreater(a, b) ==
    \/ a.timestamp > b.timestamp
    \/ a.timestamp = b.timestamp /\ (0 - a.log_index) > (0 - b.log_index)

SortsBefore_Ascending(a, b) ==
    \/ a.timestamp < b.timestamp
    \/ a.timestamp = b.timestamp /\ (0 - a.log_index) < (0 - b.log_index)

\* the key without the negation of log_index
SortsBefore_ByLogIndex(a, b) ==
    \/ a.timestamp > b.timestamp
    \/ a.timestamp = b.timestamp /\ a.log_index > b.log_index

\* the sort without reverse=True and without the negation
SortsBefore_OldestFirst(a, b) ==
    \/ a.timestamp < b.timestamp
    \/ a.timestamp = b.timestamp /\ a.log_index < b.log_index

\* which of two swaps list.sort(key=..., reverse=True) puts first
SortsBefore(a, b) == KeyGreater(a, b)

\* stable insertion of x: after every element that does not sort after it
RECURSIVE InsertSorted(_, _)
InsertSorted(sorted, x) ==
    IF sorted = <<>> THEN <<x>>
    ELSE IF SortsBefore(x, Head(sorted)) THEN <<x>> \o sorted
    ELSE <<Head(sorted)>> \o InsertSorted(Tail(sorted), x)

\* list.sort: stable, equal keys keep their input order
RECURSIVE SortSwaps(_)
SortSwaps(swaps) ==
    IF swaps = <<>> THEN <<>>
    ELSE InsertSorted(SortSwaps(SubSeq(swaps, 1, Len(swaps) - 1)), swaps[Len(swaps)])

\* the error of a derivation caught and its group skipped
ExtendTrades_Swallow(acc, current_swaps) ==
    LET r == tx_swaps_to_trades(current_swaps)
    IN [err |-> FALSE, trades |-> acc.trades \o r.trades]

\* trades.extend(_tx_swaps_to_trades(current_swaps)), an error propagating
ExtendTrades(acc, current_swaps) ==
    LET r == tx_swaps_to_trades(current_swaps)
    IN IF r.err THEN DivisionError
       ELSE [err |-> FALSE, trades |-> acc.trades \o r.trades]

\* the for loop of swaps_to_trades from the i-th sorted swap on
RECURSIVE GroupLoop(_, _, _, _, _)
GroupLoop(swaps, i, last_tx_hash, current_swaps, acc) ==
    IF acc.err THEN acc
    ELSE IF i > Len(swaps)
    THEN IF Len(current_swaps) # 0 THEN ExtendTrades(acc, current_swaps) ELSE acc
    ELSE LET swap == swaps[i]
             flush == swap.tx_hash # last_tx_hash
         IN GroupLoop(swaps, i + 1, swap.tx_hash,
                      Append(IF flush THEN <<>> ELSE current_swaps, swap),
                      IF flush THEN ExtendTrades(acc, current_swaps) ELSE acc)

\* the grouping pass over the list as given, not sorted
swaps_to_trades_Unsorted(swaps) ==
    IF swaps = <<>> THEN NoTrades
    ELSE GroupLoop(swaps, 1, swaps[1].tx_hash, <<>>, NoTrades)

swaps_to_trades(swaps) ==
    IF swaps = <<>> THEN NoTrades
    ELSE LET sorted == SortSwaps(swaps)
         IN GroupLoop(sorted, 1, sorted[1].tx_hash, <<>>, NoTrades)

-----------------------------------------------------------------------------
(* The query source: the Uniswap subgraph, static *)

Procs == {1, 2}

NoProc == 0

Addresses == {"a1", "a2", "a3"}

\* the address lists a request may name
AddressLists == {<<"a1">>, <<"a2">>, <<"a1", "a2">>, <<"a3">>, <<"a1", "a3">>}

Timestamps == 0 .. MaxTs

FromTimestamps == {0, 1}

\* the swaps the subgraph holds, in the order its queries return them;
\* `to` is the account a swap pays out to, `id` its transaction hash
SubgraphSwaps == <<
    [to |-> "a1", id |-> 1, logIndex |-> 0, timestamp |-> 1, token0 |-> "T0", token1 |-> "T1",
     amount0In |-> 4, amount1In |-> 0, amount0Out |-> 0, amount1Out |-> 2],
    [to |-> "pair", id |-> 2, logIndex |-> 0, timestamp |-> 2, token0 |-> "T0", token1 |-> "T1",
     amount0In |-> 0, amount1In |-> 6, amount0Out |-> 3, amount1Out |-> 0],
    [to |-> "a1", id |-> 2, logIndex |-> 1, timestamp |-> 2, token0 |-> "T0", token1 |-> "T2",
     amount0In |-> 3, amount1In |-> 0, amount0Out |-> 0, amount1Out |-> 5],
    [to |-> "a2", id |-> 3, logIndex |-> 0, timestamp |-> 2, token0 |-> "T1", token1 |-> "T2",
     amount0In |-> 1, amount1In |-> 1, amount0Out |-> 0, amount1Out |-> 8],
    [to |-> "a3", id |-> 4, logIndex |-> 0, timestamp |-> 0, token0 |-> "T0", token1 |-> "T1",
     amount0In |-> 0, amount1In |-> 0, amount0Out |-> 0, amount1Out |-> 7] >>

\* entry['transaction']['swaps']: every swap of the entry's transaction
TransactionSwaps(entry) == SelectSeq(SubgraphSwaps, LAMBDA s : s.id = entry.id)

\* the records SWAPS_QUERY matches for the bound address and window
MatchingSwaps(address, start_ts, end_ts) ==
    SelectSeq(SubgraphSwaps,
              LAMBDA s : s.to = address /\ start_ts <= s.timestamp /\ s.timestamp <= end_ts)

\* one page: at most `limit` records from `offset` on
PageOf(records, offset, limit) ==
    SubSeq(records, offset + 1, Min2(offset + limit, Len(records)))

\* self.graph.query for the swaps of one address
QuerySwaps(param_values) ==
    PageOf(MatchingSwaps(param_values.address, param_values.start_ts, param_values.end_ts),
           param_values.offset, param_values.limit)

-----------------------------------------------------------------------------
(* The database: used query ranges and AMM swaps *)

NoRange == <<>>

EmptyMap == [a \in {} |-> <<>>]

MapPut(m, k, v) == [a \in DOMAIN m \cup {k} |-> IF a = k THEN v ELSE m[a]]

\* dict.update
MapUpdate(m, other) ==
    [a \in DOMAIN m \cup DOMAIN other |-> IF a \in DOMAIN other THEN other[a] ELSE m[a]]

get_used_query_range(ranges, address) == ranges[address]

update_used_query_range(ranges, address, start_ts, end_ts) ==
    [ranges EXCEPT ![address] = <<start_ts, end_ts>>]

\* the identity under which the swap store keeps one record
SwapIdentity(swap) == <<swap.tx_hash, swap.log_index, swap.address>>

\* add_amm_swaps: a swap whose identity is stored already is skipped
add_amm_swaps(stored, swaps) ==
    stored \cup {s \in swaps : \A t \in stored : SwapIdentity(t) # SwapIdentity(s)}

SwapOrderBefore(a, b) ==
    \/ a.timestamp < b.timestamp
    \/ a.timestamp = b.timestamp /\ a.tx_hash < b.tx_hash
    \/ a.timestamp = b.timestamp /\ a.tx_hash = b.tx_hash /\ a.log_index < b.log_index

RECURSIVE SwapsInOrder(_)
SwapsInOrder(set) ==
    IF set = {} THEN <<>>
    ELSE LET first == CHOOSE s \in set : \A t \in set \ {s} : SwapOrderBefore(s, t)
         IN <<first>> \o SwapsInOrder(set \ {first})

\* get_amm_swaps(from_ts, to_ts, location=UNISWAP, address)
get_amm_swaps(stored, from_ts, to_ts, address) ==
    SwapsInOrder({s \in stored :
                    s.address = address /\ from_ts <= s.timestamp /\ s.timestamp <= to_ts})

-----------------------------------------------------------------------------
(* _get_trades_graph_for_address: the records of one page *)

\* the AMMSwap built at lines 519-533
ToAMMSwap(swap, address) ==
    [tx_hash |-> swap.id,
     log_index |-> swap.logIndex,
     address |-> address,
     timestamp |-> swap.timestamp,
     token0 |-> swap.token0,
     token1 |-> swap.token1,
     amount0_in |-> FVal(swap.amount0In, 1),
     amount1_in |-> FVal(swap.amount1In, 1),
     amount0_out |-> FVal(swap.amount0Out, 1),
     amount1_out |-> FVal(swap.amount1Out, 1)]

EntrySwaps(entry, address) ==
    LET raw == TransactionSwaps(entry)
    IN [i \in 1 .. Len(raw) |-> ToAMMSwap(raw[i], address)]

\* the for loop over result_data (lines 497-536) from the k-th entry on
RECURSIVE ProcessPage(_, _, _, _)
ProcessPage(acc, result_data, address, k) ==
    IF acc.err \/ k > Len(result_data) THEN acc
    ELSE ProcessPage(ExtendTrades(acc, EntrySwaps(result_data[k], address)),
                     result_data, address, k + 1)

\* "if len(result_data) < GRAPH_QUERY_LIMIT: break"
ShortPage_AtMost(n) == n <= GRAPH_QUERY_LIMIT

ShortPage(n) == n < GRAPH_QUERY_LIMIT

\* 'offset': param_values['offset'] + GRAPH_QUERY_LIMIT
NextOffset_ByOne(offset) == offset + 1

NextOffset(offset) == offset + GRAPH_QUERY_LIMIT

-----------------------------------------------------------------------------
(* Sync requests: get_trades, get_trades_history, _get_trades *)

NoResult == [status |-> "none", raised_in |-> "none"]

IdleProc ==
    [pc |-> "idle", entry |-> "none",
     addresses |-> <<>>, to_timestamp |-> 0,
     new_addresses |-> <<>>, existing_addresses |-> <<>>, min_end_ts |-> 0,
     seen |-> EmptyMap, idx |-> 1, param_values |-> <<>>, trades |-> <<>>,
     address_trades |-> EmptyMap, address_amm_trades |-> EmptyMap,
     log |-> <<>>, result |-> NoResult]

Fetching(q) == q.pc \in {"fetch_new", "fetch_existing"}

\* the addresses and the start of the window of the batch being fetched
BatchOf(q) == IF q.pc = "fetch_new" THEN q.new_addresses ELSE q.existing_addresses

StartOf(q) == IF q.pc = "fetch_new" THEN 0 ELSE q.min_end_ts

\* lines 343-354: the loop over addresses from the i-th on
RECURSIVE PartitionLoop(_, _, _, _)
PartitionLoop(addresses, i, ranges, acc) ==
    IF i > Len(addresses) THEN acc
    ELSE LET address == addresses[i]
             trades_range == get_used_query_range(ranges, address)
         IN IF trades_range = NoRange
            THEN PartitionLoop(addresses, i + 1, ranges,
                               [acc EXCEPT !.new_addresses = Append(@, address)])
            ELSE PartitionLoop(addresses, i + 1, ranges,
                               [acc EXCEPT !.existing_addresses = Append(@, address),
                                           !.min_end_ts = Min2(@, trades_range[2])])

PartitionAddresses_Uncapped(addresses, to_timestamp, ranges) ==
    PartitionLoop(addresses, 1, ranges,
                  [new_addresses |-> <<>>, existing_addresses |-> <<>>,
                   min_end_ts |-> MaxTs + 1])

PartitionAddresses(addresses, to_timestamp, ranges) ==
    PartitionLoop(addresses, 1, ranges,
                  [new_addresses |-> <<>>, existing_addresses |-> <<>>,
                   min_end_ts |-> to_timestamp])

\* "if existing_addresses and min_end_ts <= to_timestamp" (line 376)
FetchesExisting(q) == q.existing_addresses # <<>> /\ q.min_end_ts <= q.to_timestamp

AfterNewBatch(q) == IF FetchesExisting(q) THEN "fetch_existing" ELSE "persist"

AfterPartition(q) == IF q.new_addresses # <<>> THEN "fetch_new" ELSE AfterNewBatch(q)

\* the param_values a pagination loop starts with (lines 481-487)
FirstParams(address, start_ts, end_ts) ==
    [limit |-> GRAPH_QUERY_LIMIT, offset |-> 0, address |-> address,
     start_ts |-> start_ts, end_ts |-> end_ts]

\* lines 367-373 and 385-391: the range of every address of the batch
RECURSIVE CommitRanges(_, _, _, _)
CommitRanges_PastEnd(ranges, batch, start_ts, end_ts) ==
    [a \in DOMAIN ranges |->
        IF \E i \in 1 .. Len(batch) : batch[i] = a THEN <<start_ts, end_ts + 1>>
        ELSE ranges[a]]

CommitRanges(ranges, batch, start_ts, end_ts) ==
    IF batch = <<>> THEN ranges
    ELSE CommitRanges(update_used_query_range(ranges, Head(batch), start_ts, end_ts),
                      Tail(batch), start_ts, end_ts)

\* the swaps of a list of trades, as a set
TradesSwaps(trades) ==
    UNION {{trades[i].swaps[j] : j \in 1 .. Len(trades[i].swaps)} : i \in 1 .. Len(trades)}

\* a list's append in place of the set's add
SetAdd_Append(all_swaps, swap) == Append(all_swaps, swap)

\* all_swaps.add(swap); the set is kept as the list of its elements in
\* insertion order
SetAdd(all_swaps, swap) ==
    IF \E k \in 1 .. Len(all_swaps) : all_swaps[k] = swap
    THEN all_swaps ELSE Append(all_swaps, swap)

\* "for swap in trade.swaps" from the j-th swap on
RECURSIVE AddTradeSwaps(_, _, _)
AddTradeSwaps(all_swaps, swaps, j) ==
    IF j > Len(swaps) THEN all_swaps
    ELSE AddTradeSwaps(SetAdd(all_swaps, swaps[j]), swaps, j + 1)

\* "for trade in address_amm_trades[address]" from the i-th trade on
RECURSIVE AddTradesSwaps(_, _, _)
AddTradesSwaps(all_swaps, trades, i) ==
    IF i > Len(trades) THEN all_swaps
    ELSE AddTradesSwaps(AddTradeSwaps(all_swaps, trades[i].swaps, 1), trades, i + 1)

\* lines 394-398 from the n-th requested address on
RECURSIVE AddAddressesSwaps(_, _, _)
AddAddressesSwaps(all_swaps, q, n) ==
    IF n > Len(q.addresses) THEN all_swaps
    ELSE AddAddressesSwaps(
             IF q.addresses[n] \in DOMAIN q.address_amm_trades
             THEN AddTradesSwaps(all_swaps, q.address_amm_trades[q.addresses[n]], 1)
             ELSE all_swaps,
             q, n + 1)

\* list(all_swaps), the list handed to add_amm_swaps (its order is not
\* used)
AllSwapsList(q) == AddAddressesSwaps(<<>>, q, 1)

\* lines 394-398: the swaps of the fetched trades of the requested addresses
AllSwaps(q) == {AllSwapsList(q)[k] : k \in 1 .. Len(AllSwapsList(q))}

\* lines 403-412: the loop over addresses from the i-th on
RECURSIVE ReadBack(_, _, _, _, _)
ReadBack(q, stored, from_timestamp, i, acc) ==
    IF acc.err \/ i > Len(q.addresses) THEN acc
    ELSE LET address == q.addresses[i]
             db_swaps == get_amm_swaps(stored, from_timestamp, q.to_timestamp, address)
             db_trades == swaps_to_trades(db_swaps)
         IN IF db_trades.err THEN [acc EXCEPT !.err = TRUE]
            ELSE ReadBack(q, stored, from_timestamp, i + 1,
                          IF db_trades.trades # <<>>
                          THEN [acc EXCEPT !.mapping = MapPut(@, address, db_trades.trades),
                                           !.order = Append(@, address)]
                          ELSE acc)

\* get_trades: the lists of trade_mapping.items() one after the other
RECURSIVE AllTrades(_, _)
AllTrades(mapping, order) ==
    IF order = <<>> THEN <<>>
    ELSE mapping[Head(order)] \o AllTrades(mapping, Tail(order))

\* what a call that gets through lines 393-414 returns to its caller
ReturnValue(q, stored, from_timestamp) ==
    LET back == ReadBack(q, stored, from_timestamp, 1,
                         [err |-> FALSE, mapping |-> EmptyMap, order |-> <<>>])
    IN [err |-> back.err,
        value |-> IF q.entry = "get_trades" THEN AllTrades(back.mapping, back.order)
                  ELSE back.mapping]

\* the exception leaving the call with the lock still held
Raise_KeepLock(p, q, error) ==
    /\ proc' = [proc EXCEPT ![p] = [IdleProc EXCEPT !.result = [status |-> error,
                                                                raised_in |-> q.pc]]]
    /\ trades_lock' = trades_lock

\* the call ends by raising: the with-statement releases the lock
Raise(p, q, error) ==
    /\ proc' = [proc EXCEPT ![p] = [IdleProc EXCEPT !.result = [status |-> error,
                                                                raised_in |-> q.pc]]]
    /\ trades_lock' = NoProc

\* lines 393-414 and the end of the with-block, for a request whose
\* fetches are over; from_timestamp is read here only
Complete(p, q, stored) ==
    \E from_timestamp \in FromTimestamps :
        /\ amm_swaps' = add_amm_swaps(stored, AllSwaps(q))
        /\ IF ReturnValue(q, amm_swaps', from_timestamp).err
           THEN Raise(p, q, "ZeroDivisionError")
           ELSE /\ proc' = [proc EXCEPT ![p] =
                              [IdleProc EXCEPT !.result = [status |-> "ok",
                                                          raised_in |-> "none"]]]
                /\ trades_lock' = NoProc

\* the with-statement of get_trades and get_trades_history may enter
LockFree_Ignored == TRUE

LockFree == trades_lock = NoProc

CallGetTrades(p) ==
    /\ proc[p].pc = "idle"
    /\ proc' = [proc EXCEPT ![p] = [IdleProc EXCEPT !.pc = "wait", !.entry = "get_trades"]]
    /\ UNCHANGED <<graph, trades_lock, used_query_ranges, amm_swaps, max_to, pager, conv, bal>>

\* get_trades_history returns {} before the lock when the graph is missing
CallGetTradesHistory(p) ==
    /\ proc[p].pc = "idle"
    /\ proc' = [proc EXCEPT ![p] =
                  IF graph
                  THEN [IdleProc EXCEPT !.pc = "wait", !.entry = "get_trades_history"]
                  ELSE [IdleProc EXCEPT !.result = [status |-> "ok", raised_in |-> "none"]]]
    /\ UNCHANGED <<graph, trades_lock, used_query_ranges, amm_swaps, max_to, pager, conv, bal>>

\* the request enters the with-block and runs up to its first query:
\* get_trades_history deletes the Uniswap data (swaps and query ranges)
\* when reset_db_data is set, then lines 339-354 partition the addresses
EnterWith(p, addresses, to_timestamp, reset_db_data) ==
    /\ proc[p].pc = "wait"
    /\ LockFree
    /\  LET ranges == IF reset_db_data THEN [a \in Addresses |-> NoRange]
                      ELSE used_query_ranges
            stored == IF reset_db_data THEN {} ELSE amm_swaps
            parts == PartitionAddresses(addresses, to_timestamp, ranges)
            q1 == [proc[p] EXCEPT
                      !.addresses = addresses,
                      !.to_timestamp = to_timestamp,
                      !.new_addresses = parts.new_addresses,
                      !.existing_addresses = parts.existing_addresses,
                      !.min_end_ts = parts.min_end_ts,
                      !.seen = [a \in {addresses[i] : i \in 1 .. Len(addresses)} |-> ranges[a]]]
            q2 == [q1 EXCEPT !.pc = AfterPartition(q1)]
        IN /\ reset_db_data => proc[p].entry = "get_trades_history"
           /\ used_query_ranges' = ranges
           /\ max_to' = IF to_timestamp > max_to THEN to_timestamp ELSE max_to
           /\ IF Fetching(q2)
              THEN /\ proc' = [proc EXCEPT ![p] =
                                 [q2 EXCEPT !.param_values =
                                    FirstParams(BatchOf(q2)[1], StartOf(q2), to_timestamp)]]
                   /\ trades_lock' = p
                   /\ amm_swaps' = stored
              ELSE Complete(p, q2, stored)
    /\ UNCHANGED <<graph, pager, conv, bal>>

\* a request with any address list, end timestamp and reset flag
Enter(p) ==
    \E addresses \in AddressLists, to_timestamp \in Timestamps, reset_db_data \in BOOLEAN :
        EnterWith(p, addresses, to_timestamp, reset_db_data)

\* what a raising fetch leaves of the query ranges: the writes of lines
\* 367-373 and 385-391 come after the fetch of their batch and are skipped
RangesOnFailure_CommitFirst(q) ==
    CommitRanges(used_query_ranges, BatchOf(q), StartOf(q), q.to_timestamp)

RangesOnFailure(q) == used_query_ranges

\* self.graph.query raises RemoteError: nothing catches it up to the caller
FetchFails(p) ==
    LET q == proc[p]
    IN /\ Fetching(q)
       /\ graph
       /\ Raise(p, q, "RemoteError")
       /\ used_query_ranges' = RangesOnFailure(q)
       /\ UNCHANGED <<graph, amm_swaps, max_to, pager, conv, bal>>

\* the query ranges after a page of the batch's fetch has been processed:
\* written once the fetch of the whole batch has returned
RangesAfterPage_Eager(q, batch_done) ==
    CommitRanges(used_query_ranges, BatchOf(q), StartOf(q), q.to_timestamp)

RangesAfterPage(q, batch_done) ==
    IF batch_done
    THEN CommitRanges(used_query_ranges, BatchOf(q), StartOf(q), q.to_timestamp)
    ELSE used_query_ranges

\* the request after one iteration of the while loop of
\* _get_trades_graph_for_address that returned result_data without error,
\* up to its next query (or to the end of its fetches)
AfterPage(q, result_data, trades) ==
    LET batch == BatchOf(q)
        address == batch[q.idx]
        logged == [q EXCEPT !.log = Append(@, [batch |-> q.pc,
                                                 param_values |-> q.param_values,
                                                 count |-> Len(result_data)])]
        address_trades == IF Len(trades) # 0
                          THEN MapPut(q.address_trades, address, trades)
                          ELSE q.address_trades
        finished == [logged EXCEPT
                        !.trades = <<>>,
                        !.address_trades = EmptyMap,
                        !.address_amm_trades = MapUpdate(@, address_trades),
                        !.idx = 1,
                        !.pc = IF q.pc = "fetch_new" THEN AfterNewBatch(q) ELSE "persist"]
    IN IF ~ShortPage(Len(result_data))
       THEN [logged EXCEPT !.trades = trades,
                           !.param_values = [@ EXCEPT !.offset = NextOffset(@)]]
       ELSE IF q.idx < Len(batch)
       THEN [logged EXCEPT !.trades = <<>>,
                           !.address_trades = address_trades,
                           !.idx = q.idx + 1,
                           !.param_values = FirstParams(batch[q.idx + 1], StartOf(q),
                                                        q.to_timestamp)]
       ELSE IF finished.pc = "fetch_existing"
       THEN [finished EXCEPT !.param_values =
                FirstParams(finished.existing_addresses[1], finished.min_end_ts,
                            finished.to_timestamp)]
       ELSE finished

\* one query of the pagination loop returns and the request runs up to its
\* next query or to the end of the call; with no graph, self.graph.query
\* raises AttributeError
FetchPage(p) ==
    LET q == proc[p]
        result_data == QuerySwaps(q.param_values)
        processed == ProcessPage([err |-> FALSE, trades |-> q.trades], result_data,
                                 BatchOf(q)[q.idx], 1)
        batch_done == ShortPage(Len(result_data)) /\ q.idx = Len(BatchOf(q))
        q1 == AfterPage(q, result_data, processed.trades)
    IN /\ Fetching(q)
       /\ IF ~graph
          THEN Raise(p, q, "AttributeError") /\ UNCHANGED <<used_query_ranges, amm_swaps>>
          ELSE IF processed.err
          THEN Raise(p, q, "ZeroDivisionError") /\ UNCHANGED <<used_query_ranges, amm_swaps>>
          ELSE /\ used_query_ranges' = RangesAfterPage(q, batch_done)
               /\ IF Fetching(q1)
                  THEN /\ proc' = [proc EXCEPT ![p] = q1]
                       /\ UNCHANGED <<trades_lock, amm_swaps>>
                  ELSE Complete(p, q1, amm_swaps)
       /\ UNCHANGED <<graph, max_to, pager, conv, bal>>

PagerIdle == [pc |-> "off"]

ConvIdle == [pc |-> "off"]

BalIdle == [pc |-> "off"]

SyncInit ==
    /\ graph \in BOOLEAN
    /\ trades_lock = NoProc
    /\ used_query_ranges = [a \in Addresses |-> NoRange]
    /\ amm_swaps = {}
    /\ proc = [p \in Procs |-> IdleProc]
    /\ max_to = 0

Init == SyncInit /\ pager = PagerIdle /\ conv = ConvIdle /\ bal = BalIdle

Next ==
    \E p \in Procs :
        \/ CallGetTrades(p)
        \/ CallGetTradesHistory(p)
        \/ Enter(p)
        \/ FetchPage(p)
        \/ FetchFails(p)

Spec == Init /\ [][Next]_vars

-----------------------------------------------------------------------------
(* Properties of the sync requests (Spec) *)

SeqSet(seq) == {seq[i] : i \in 1 .. Len(seq)}

MinOf(set) == CHOOSE m \in set : \A n \in set : m <= n

\* the AMMSwaps the subgraph holds for an address up to a timestamp
SourceSwapsOf(address, end_ts) ==
    LET entries == MatchingSwaps(address, 0, end_ts)
    IN UNION {SeqSet(EntrySwaps(entries[i], address)) : i \in 1 .. Len(entries)}

NoCallRunning == trades_lock = NoProc /\ \A p \in Procs : ~Fetching(proc[p])

\* C1: between sync calls (whether they returned or were aborted by an
\* error), every address with a recorded range (s, e) has every swap the
\* subgraph holds for it with timestamp in [0, e] in the swap store.
C1_NoGapInSyncedWindow ==
    NoCallRunning =>
        \A a \in Addresses :
            used_query_ranges[a] # NoRange =>
                SourceSwapsOf(a, used_query_ranges[a][2]) \subseteq amm_swaps

\* C2: a step in which the fetch of a batch fails with RemoteError ends the
\* call there: the error is the caller's result, nothing is persisted, and
\* every address of the failed batch still has the range (or none) that the
\* call read when it partitioned the addresses.
C2_Step ==
    \A p \in Procs :
        (Fetching(proc[p]) /\ proc'[p].result.status = "RemoteError") =>
            /\ proc'[p].pc = "idle"
            /\ proc'[p].result.raised_in = proc[p].pc
            /\ amm_swaps' = amm_swaps
            /\ \A a \in SeqSet(BatchOf(proc[p])) :
                  used_query_ranges'[a] = proc[p].seen[a]

C2_FailedFetchCommitsNoRange == [][C2_Step]_vars

C2_Witness ==
    \E p \in Procs :
        /\ proc[p].result.status = "RemoteError"
        /\ proc[p].result.raised_in = "fetch_existing"
        /\ \E a \in Addresses : used_query_ranges[a] # NoRange

\* C3: at most one request is inside the sync sequence and it holds the
\* lock; while it is, the ranges of its addresses are the ones it read at
\* its partition step, except those it has committed itself: no other
\* request's range writes interleave with its own.
C3_Serialized ==
    /\ Cardinality({p \in Procs : Fetching(proc[p])}) <= 1
    /\ \A p \in Procs :
          Fetching(proc[p]) =>
              /\ trades_lock = p
              /\ \A a \in SeqSet(proc[p].existing_addresses) :
                    used_query_ranges[a] = proc[p].seen[a]
              /\ \A a \in SeqSet(proc[p].new_addresses) :
                    used_query_ranges[a] =
                        IF proc[p].pc = "fetch_new" THEN NoRange
                        ELSE <<0, proc[p].to_timestamp>>

C3_Witness ==
    \E p, r \in Procs :
        /\ Fetching(proc[p])
        /\ proc[p].existing_addresses # <<>>
        /\ proc[r].pc = "wait"
        /\ proc[r].result.status = "none"

\* C4: a recorded end_ts never exceeds the largest to_timestamp requested
\* so far (the latest one, when the calls' to_timestamp never decrease), and
\* a call whose to_timestamp is not below any earlier call's never lowers
\* the end_ts of a recorded range.
C4_Inv ==
    \A a \in Addresses :
        used_query_ranges[a] # NoRange => used_query_ranges[a][2] <= max_to

C4_Step ==
    \A p \in Procs, a \in Addresses :
        (/\ Fetching(proc[p])
         /\ proc[p].to_timestamp = max_to
         /\ used_query_ranges[a] # NoRange
         /\ used_query_ranges'[a] # NoRange) =>
            used_query_ranges'[a][2] >= used_query_ranges[a][2]

C4_RangeMonotone == [](C4_Inv) /\ [][C4_Step]_vars

C4_Witness ==
    \E a \in Addresses :
        /\ used_query_ranges[a] # NoRange
        /\ used_query_ranges[a][1] > 0
        /\ used_query_ranges[a][2] > used_query_ranges[a][1]

\* C5: the partition step puts every requested address without a persisted
\* range in new_addresses and every one with a range in existing_addresses,
\* each address once, and min_end_ts is the minimum of to_timestamp and the
\* recorded end_ts of the existing addresses.
C5_Partition ==
    \A p \in Procs :
        Fetching(proc[p]) =>
            LET q == proc[p]
                requested == SeqSet(q.addresses)
            IN /\ SeqSet(q.new_addresses) = {a \in requested : q.seen[a] = NoRange}
               /\ SeqSet(q.existing_addresses) = {a \in requested : q.seen[a] # NoRange}
               /\ Len(q.new_addresses) + Len(q.existing_addresses) = Len(q.addresses)
               /\ q.min_end_ts =
                     MinOf({q.to_timestamp} \cup
                           {q.seen[a][2] : a \in SeqSet(q.existing_addresses)})
               /\ q.min_end_ts <= q.to_timestamp

C5_Witness ==
    \E p \in Procs :
        /\ Fetching(proc[p])
        /\ proc[p].new_addresses # <<>>
        /\ proc[p].existing_addresses # <<>>
        /\ proc[p].min_end_ts < proc[p].to_timestamp

\* C6: the queries of a call are those of the new batch over
\* [0, to_timestamp] followed by those of the existing batch over
\* [min_end_ts, to_timestamp]; a batch's ranges are written, all as
\* (start of its window, to_timestamp), in the step in which the last page
\* of its last address returns and not before; the new batch's ranges are
\* in place while the existing batch is fetched.
C6_Inv ==
    \A p \in Procs :
        Fetching(proc[p]) =>
            LET q == proc[p]
            IN /\ \A i \in 1 .. Len(q.log) :
                    /\ q.log[i].param_values.end_ts = q.to_timestamp
                    /\ q.log[i].batch = "fetch_new" =>
                          /\ q.log[i].param_values.start_ts = 0
                          /\ q.log[i].param_values.address \in SeqSet(q.new_addresses)
                    /\ q.log[i].batch = "fetch_existing" =>
                          /\ q.log[i].param_values.start_ts = q.min_end_ts
                          /\ q.log[i].param_values.address \in SeqSet(q.existing_addresses)
                    /\ \A j \in 1 .. Len(q.log) :
                          (q.log[i].batch = "fetch_new" /\ q.log[j].batch = "fetch_existing")
                              => i < j
               /\ q.param_values.start_ts = StartOf(q)
               /\ q.param_values.end_ts = q.to_timestamp
               /\ q.pc = "fetch_new" =>
                     /\ \A i \in 1 .. Len(q.log) : q.log[i].batch = "fetch_new"
                     /\ \A a \in SeqSet(q.addresses) : used_query_ranges[a] = q.seen[a]
               /\ q.pc = "fetch_existing" =>
                     /\ \A a \in SeqSet(q.new_addresses) :
                           /\ used_query_ranges[a] = <<0, q.to_timestamp>>
                           /\ \E i \in 1 .. Len(q.log) :
                                 /\ q.log[i].param_values.address = a
                                 /\ q.log[i].count < GRAPH_QUERY_LIMIT
                     /\ \A a \in SeqSet(q.existing_addresses) :
                           used_query_ranges[a] = q.seen[a]

C6_Step ==
    \A p \in Procs :
        Fetching(proc[p]) =>
            LET q == proc[p]
                batch == SeqSet(BatchOf(q))
                done == {q.log[i].param_values.address :
                            i \in {k \in 1 .. Len(q.log) :
                                     /\ q.log[k].batch = q.pc
                                     /\ q.log[k].count < GRAPH_QUERY_LIMIT}}
            IN /\ used_query_ranges' # used_query_ranges =>
                     /\ done = batch \ {q.param_values.address}
                     /\ Len(QuerySwaps(q.param_values)) < GRAPH_QUERY_LIMIT
                     /\ \A a \in batch :
                           used_query_ranges'[a] = <<StartOf(q), q.to_timestamp>>
                     /\ \A a \in Addresses \ batch :
                           used_query_ranges'[a] = used_query_ranges[a]
               /\ proc'[p].result.status = "ok" =>
                     /\ \A a \in SeqSet(q.new_addresses) :
                           used_query_ranges'[a] = <<0, q.to_timestamp>>
                     /\ \A a \in SeqSet(q.existing_addresses) :
                           used_query_ranges'[a] = <<q.min_end_ts, q.to_timestamp>>

C6_BatchOrderAndRanges == [](C6_Inv) /\ [][C6_Step]_vars

C6_Witness ==
    \E p \in Procs :
        /\ proc[p].pc = "fetch_existing"
        /\ proc[p].new_addresses # <<>>
        /\ Len(proc[p].log) >= 2
        /\ proc[p].min_end_ts > 0

\* C7: a call whose to_timestamp is earlier than the smallest recorded
\* end_ts of its existing addresses issues no fetch for the existing batch.
C7_NoFetchBeforeSyncedPoint ==
    \A p \in Procs :
        (/\ Fetching(proc[p])
         /\ proc[p].existing_addresses # <<>>
         /\ proc[p].to_timestamp <
               MinOf({proc[p].seen[a][2] : a \in SeqSet(proc[p].existing_addresses)})) =>
            /\ proc[p].pc # "fetch_existing"
            /\ \A i \in 1 .. Len(proc[p].log) : proc[p].log[i].batch # "fetch_existing"

-----------------------------------------------------------------------------
(* PageSpec: one pagination loop (liquidity positions, swaps of an address, *)
(* daily token prices) against a query source                               *)

LoopKinds == {"liquidityPositions", "swaps", "tokenDayDatas"}

\* the param_values each loop starts with (lines 134-139, 481-487, 577-582)
InitialParams(kind) ==
    CASE kind = "liquidityPositions" ->
            [limit |-> GRAPH_QUERY_LIMIT, offset |-> 0, addresses |-> <<"a1", "a2">>,
             balance |-> "0"]
      [] kind = "swaps" ->
            [limit |-> GRAPH_QUERY_LIMIT, offset |-> 0, address |-> "a1",
             start_ts |-> "0", end_ts |-> "2"]
      [] kind = "tokenDayDatas" ->
            [limit |-> GRAPH_QUERY_LIMIT, offset |-> 0, token_ids |-> <<"t0", "t1">>,
             datetime |-> 0]

\* the matching records of a static source, numbered in the source's order
Records(total) == [i \in 1 .. total |-> i]

\* the pages the source may answer a query with: a static source the
\* records from the offset on, at most `limit` of them; any other source
\* any number of records (even one more than asked for)
PagesFor(pg) ==
    IF pg.static
    THEN {PageOf(Records(pg.total), pg.param_values.offset, pg.param_values.limit)}
    ELSE {[i \in 1 .. c |-> pg.param_values.offset + i] : c \in 0 .. GRAPH_QUERY_LIMIT + 1}

\* one iteration of the "while True" loop of _get_balances_graph,
\* _get_trades_graph_for_address or _get_unknown_asset_price_graph
PageStep(kind) ==
    /\ pager.pc = "loop"
    /\ pager.kind = kind
    /\ Len(pager.queries) < MaxPages
    /\ \E result_data \in PagesFor(pager) :
          pager' = [pager EXCEPT
                       !.queries = Append(@, pager.param_values),
                       !.counts = Append(@, Len(result_data)),
                       !.processed = @ \o result_data,
                       !.pc = IF ShortPage(Len(result_data)) THEN "done" ELSE "loop",
                       !.param_values = IF ShortPage(Len(result_data)) THEN @
                                        ELSE [@ EXCEPT !.offset = NextOffset(@)]]
    /\ UNCHANGED <<graph, trades_lock, used_query_ranges, amm_swaps, proc, max_to, conv, bal>>

PageInit ==
    /\ SyncInit
    /\ graph
    /\ conv = ConvIdle
    /\ bal = BalIdle
    /\ pager \in {[pc |-> "loop", kind |-> kind, static |-> static, total |-> total,
                   param_values |-> InitialParams(kind),
                   queries |-> <<>>, counts |-> <<>>, processed |-> <<>>] :
                  kind \in LoopKinds, static \in BOOLEAN, total \in 0 .. MaxRecords}

PageNext ==
    \/ PageStep("liquidityPositions")
    \/ PageStep("swaps")
    \/ PageStep("tokenDayDatas")

PageSpec == PageInit /\ [][PageNext]_vars

\* C8: a pagination loop sends the offsets 0, L, 2L, ... in this order with
\* the limit L and every other bound parameter as in its first query; every
\* page before the last one fetched was full, the loop has stopped exactly
\* when the last page fetched was short (fewer than L records).
C8_Pagination ==
    LET n == Len(pager.queries)
    IN /\ \A i \in 1 .. n :
             /\ pager.queries[i].offset = (i - 1) * GRAPH_QUERY_LIMIT
             /\ pager.queries[i].limit = GRAPH_QUERY_LIMIT
             /\ [pager.queries[i] EXCEPT !.offset = 0] = InitialParams(pager.kind)
       /\ \A i \in 1 .. n - 1 : pager.counts[i] >= GRAPH_QUERY_LIMIT
       /\ pager.pc = "done" <=> (n > 0 /\ pager.counts[n] < GRAPH_QUERY_LIMIT)

C8_Witness ==
    /\ pager.pc = "done"
    /\ ~pager.static
    /\ Len(pager.queries) >= 3

\* C9: against a static source of N records that answers with the records
\* offset .. offset+L-1, a loop that has stopped has fetched exactly
\* floor(N/L)+1 pages and processed the N records once each, in the
\* source's order.
C9_StaticSource ==
    (pager.pc = "done" /\ pager.static) =>
        /\ Len(pager.queries) = (pager.total \div GRAPH_QUERY_LIMIT) + 1
        /\ pager.processed = Records(pager.total)

C9_Witness ==
    /\ pager.pc = "done"
    /\ pager.static
    /\ pager.total > 0
    /\ pager.total % GRAPH_QUERY_LIMIT = 0
    /\ pager.counts[Len(pager.counts)] = 0

-----------------------------------------------------------------------------
(* ConvSpec: swaps_to_trades on a bounded list of swaps *)

TxHashes == {1, 2}

LogIndexes == 0 .. 2

BlockTimes == {5, 10}

\* <<amount0_in, amount1_in, amount0_out, amount1_out>>
AmountShapes == {<<100, 0, 0, 40>>, <<10, 20, 6, 3>>, <<0, 0, 0, 5>>}

MakeSwap(key, amounts, timestamp) ==
    [tx_hash |-> key[1],
     log_index |-> key[2],
     address |-> "a1",
     timestamp |-> timestamp,
     token0 |-> "T0",
     token1 |-> "T1",
     amount0_in |-> FVal(amounts[1], 1),
     amount1_in |-> FVal(amounts[2], 1),
     amount0_out |-> FVal(amounts[3], 1),
     amount1_out |-> FVal(amounts[4], 1)]

\* the input starts empty; `time` gives every transaction the timestamp
\* of its block, which all its swaps carry
ConvInit ==
    /\ SyncInit
    /\ graph
    /\ pager = PagerIdle
    /\ bal = BalIdle
    /\ conv \in {[pc |-> "input", swaps |-> <<>>, time |-> time, result |-> NoTrades] :
                 time \in [TxHashes -> BlockTimes]}

\* one more swap in the input list, its (tx_hash, log_index) not there yet
DrawSwap ==
    /\ conv.pc = "input"
    /\ Len(conv.swaps) < MaxSwaps
    /\ \E key \in TxHashes \X LogIndexes, amounts \in AmountShapes :
          /\ \A i \in 1 .. Len(conv.swaps) :
                <<conv.swaps[i].tx_hash, conv.swaps[i].log_index>> # key
          /\ conv' = [conv EXCEPT
                         !.swaps = Append(@, MakeSwap(key, amounts, conv.time[key[1]]))]
    /\ UNCHANGED <<graph, trades_lock, used_query_ranges, amm_swaps, proc, max_to, pager, bal>>

Convert ==
    /\ conv.pc = "input"
    /\ conv' = [conv EXCEPT !.pc = "output", !.result = swaps_to_trades(conv.swaps)]
    /\ UNCHANGED <<graph, trades_lock, used_query_ranges, amm_swaps, proc, max_to, pager, bal>>

ConvNext == DrawSwap \/ Convert

ConvSpec == ConvInit /\ [][ConvNext]_vars

TradeTx(trade) == trade.swaps[1].tx_hash

TradeTime(trade) == trade.swaps[1].timestamp

\* C10: in the output of swaps_to_trades, a trade of a transaction with a
\* larger timestamp comes before every trade of another transaction with a
\* smaller timestamp.
C10_MostRecentFirst ==
    (conv.pc = "output" /\ ~conv.result.err) =>
        LET trades == conv.result.trades
        IN \A i, j \in 1 .. Len(trades) :
              (/\ TradeTx(trades[i]) # TradeTx(trades[j])
               /\ TradeTime(trades[i]) > TradeTime(trades[j])) => i < j

C10_Witness ==
    /\ conv.pc = "output"
    /\ ~conv.result.err
    /\ \E i, j \in 1 .. Len(conv.result.trades) :
          /\ TradeTx(conv.result.trades[i]) # TradeTx(conv.result.trades[j])
          /\ TradeTime(conv.result.trades[i]) > TradeTime(conv.result.trades[j])
          /\ conv.swaps[1].timestamp < conv.swaps[Len(conv.swaps)].timestamp

\* a trade's group: the swaps of the _tx_swaps_to_trades call that made it
TradeLogIndexes(trade) == [k \in 1 .. Len(trade.swaps) |-> trade.swaps[k].log_index]

Converted == conv.pc = "output" /\ ~conv.result.err

\* C11 as stated: within a group the swaps are in descending log index
\* order, the highest log index first.
C11_DescendingLogIndex ==
    Converted =>
        \A i \in 1 .. Len(conv.result.trades) :
            LET logs == TradeLogIndexes(conv.result.trades[i])
            IN \A k \in 1 .. Len(logs) - 1 : logs[k] > logs[k + 1]

\* C11 amended: within one transaction's group produced by swaps_to_trades
\* the swaps are in ascending log index order; the first swap of the group,
\* used for the quote legs, has the lowest log index of the group and the
\* last swap, used for the base legs, the highest.
C11_AscendingLogIndex ==
    Converted =>
        \A i \in 1 .. Len(conv.result.trades) :
            LET logs == TradeLogIndexes(conv.result.trades[i])
            IN /\ Len(logs) >= 1
               /\ \A k \in 1 .. Len(logs) - 1 : logs[k] < logs[k + 1]

\* a group of two or more swaps that the input lists in another order
C11_Witness ==
    /\ Converted
    /\ \E i \in 1 .. Len(conv.result.trades) :
          /\ Len(conv.result.trades[i].swaps) >= 2
          /\ \E m, n \in 1 .. Len(conv.swaps) :
                /\ m < n
                /\ conv.swaps[m].tx_hash = conv.swaps[n].tx_hash
                /\ conv.swaps[m].log_index > conv.swaps[n].log_index

\* the input [(tx=A, ts=10, log=2), (tx=A, ts=10, log=1), (tx=B, ts=5, log=0)]
\* with A = 1 and B = 2
C12_Input ==
    /\ Len(conv.swaps) = 3
    /\ [k \in 1 .. 3 |-> <<conv.swaps[k].tx_hash, conv.swaps[k].timestamp,
                           conv.swaps[k].log_index>>]
           = << <<1, 10, 2>>, <<1, 10, 1>>, <<2, 5, 0>> >>

\* C12 as stated: for that input the trades of transaction B precede the
\* trades of transaction A.
C12_GroupOrderBA ==
    (Converted /\ C12_Input) =>
        \A i, j \in 1 .. Len(conv.result.trades) :
            (TradeTx(conv.result.trades[i]) = 2 /\ TradeTx(conv.result.trades[j]) = 1)
                => i < j

\* C12 amended: for that input the groups are formed in the order
\* [A-group, B-group]: both transactions have trades, the trades of A precede
\* the trades of B, and A's group is the swaps (log=1, log=2) in that order.
C12_GroupOrderAB ==
    (Converted /\ C12_Input) =>
        LET trades == conv.result.trades
        IN /\ \E i \in 1 .. Len(trades) : TradeTx(trades[i]) = 1
           /\ \E j \in 1 .. Len(trades) : TradeTx(trades[j]) = 2
           /\ \A i, j \in 1 .. Len(trades) :
                 (TradeTx(trades[i]) = 1 /\ TradeTx(trades[j]) = 2) => i < j
           /\ \A i \in 1 .. Len(trades) :
                 TradeLogIndexes(trades[i]) =
                     IF TradeTx(trades[i]) = 1 THEN <<1, 2>> ELSE <<0>>

C12_Witness == Converted /\ C12_Input /\ Len(conv.result.trades) >= 2

\* the observable grouping: every input swap is in the group of some trade,
\* a group holds one transaction hash, and two trades of one transaction
\* hash have the same group
GroupsPartitionByTx ==
    LET trades == conv.result.trades
    IN /\ \A m \in 1 .. Len(conv.swaps) :
             \E i \in 1 .. Len(trades) : conv.swaps[m] \in SeqSet(trades[i].swaps)
       /\ \A i \in 1 .. Len(trades) :
             /\ \A x \in SeqSet(trades[i].swaps) : x.tx_hash = TradeTx(trades[i])
             /\ Len(trades[i].swaps) = Cardinality(SeqSet(trades[i].swaps))
       /\ \A i, j \in 1 .. Len(trades) :
             TradeTx(trades[i]) = TradeTx(trades[j]) => trades[i].swaps = trades[j].swaps

\* the log indexes of two transactions of one timestamp do not interleave
LogIndexesApart ==
    \A t, u \in TxHashes :
        (t # u /\ conv.time[t] = conv.time[u]) =>
            LET logs(h) == {conv.swaps[m].log_index :
                              m \in {n \in 1 .. Len(conv.swaps) : conv.swaps[n].tx_hash = h}}
            IN \/ \A x \in logs(t), y \in logs(u) : x < y
               \/ \A x \in logs(t), y \in logs(u) : y < x

\* C13 as stated: for every input list the groups are the classes of the
\* transaction hash.
C13_GroupsForEveryInput == Converted => GroupsPartitionByTx

\* C13 amended: for every input list in which the swaps of a transaction
\* carry one timestamp and the log indexes of two transactions with the
\* same timestamp do not interleave, every input swap is in exactly one
\* group, a group holds one transaction hash and no transaction hash is
\* spread over more than one group.
C13_GroupsPartitionByTx == (Converted /\ LogIndexesApart) => GroupsPartitionByTx

\* two transactions of one timestamp, the input alternating between them
C13_Witness ==
    /\ Converted
    /\ LogIndexesApart
    /\ Len(conv.swaps) = 3
    /\ conv.time[1] = conv.time[2]
    /\ conv.swaps[1].tx_hash # conv.swaps[2].tx_hash
    /\ conv.swaps[3].tx_hash = conv.swaps[1].tx_hash

-----------------------------------------------------------------------------
(* TxSpec: _tx_swaps_to_trades on the swaps of one transaction *)

\* <<amount0_in, amount1_in, amount0_out, amount1_out>>: every combination
\* of zero and non-zero amounts, and the single-sided swap 100 in, 40 out
TxAmountShapes == ({0, 10} \X {0, 20} \X {0, 6} \X {0, 3}) \cup {<<100, 0, 0, 40>>}

\* the swap of a transaction at a log index, every pool with its own tokens
MakeTxSwap(log_index, amounts) ==
    [tx_hash |-> 1,
     log_index |-> log_index,
     address |-> "a1",
     timestamp |-> 5,
     token0 |-> <<"token0", log_index>>,
     token1 |-> <<"token1", log_index>>,
     amount0_in |-> FVal(amounts[1], 1),
     amount1_in |-> FVal(amounts[2], 1),
     amount0_out |-> FVal(amounts[3], 1),
     amount1_out |-> FVal(amounts[4], 1)]

TxInit ==
    /\ SyncInit
    /\ graph
    /\ pager = PagerIdle
    /\ bal = BalIdle
    /\ conv = [pc |-> "tx_input", swaps |-> <<>>, quote_assets |-> <<>>, result |-> NoTrades]

\* the transaction's next swap, in log index order
DrawTxSwap ==
    /\ conv.pc = "tx_input"
    /\ Len(conv.swaps) < MaxSwaps
    /\ \E amounts \in TxAmountShapes :
          conv' = [conv EXCEPT !.swaps = Append(@, MakeTxSwap(Len(conv.swaps), amounts))]
    /\ UNCHANGED <<graph, trades_lock, used_query_ranges, amm_swaps, proc, max_to, pager, bal>>

\* one call of _tx_swaps_to_trades; quote_assets is its local of that name
DeriveTrades ==
    /\ conv.pc = "tx_input"
    /\ Len(conv.swaps) >= 1
    /\ conv' = [conv EXCEPT !.pc = "tx_output",
                            !.quote_assets = QuoteAssets(conv.swaps),
                            !.result = tx_swaps_to_trades(conv.swaps)]
    /\ UNCHANGED <<graph, trades_lock, used_query_ranges, amm_swaps, proc, max_to, pager, bal>>

TxNext == DrawTxSwap \/ DeriveTrades

TxSpec == TxInit /\ [][TxNext]_vars

TWO == <<2, 1>>

Derived == conv.pc = "tx_output"

Returned == Derived /\ ~conv.result.err

FirstSwap == conv.swaps[1]

LastSwap == conv.swaps[Len(conv.swaps)]

FirstBothIn == FirstSwap.amount0_in # ZERO /\ FirstSwap.amount1_in # ZERO

LastBothOut == LastSwap.amount0_out # ZERO /\ LastSwap.amount1_out # ZERO

\* the number of quote legs the first swap's inbound amounts call for
QuoteLegCount == IF FirstBothIn THEN 2 ELSE 1

\* the (asset, outbound amount) pairs of the last swap with an amount > 0,
\* token0 before token1
BaseLegs ==
    (IF LastSwap.amount0_out # ZERO
     THEN << <<LastSwap.token0, LastSwap.amount0_out>> >> ELSE <<>>)
    \o (IF LastSwap.amount1_out # ZERO
        THEN << <<LastSwap.token1, LastSwap.amount1_out>> >> ELSE <<>>)

\* the base leg and the quote leg of the i-th trade in base-leg-major order
BaseLegOf(i) == ((i - 1) \div QuoteLegCount) + 1

QuoteLegOf(i) == ((i - 1) % QuoteLegCount) + 1

\* C14: the quote legs are two (token0 then token1) when both inbound
\* amounts of the first swap are > 0, each with half its inbound amount when
\* the last swap has both outbound amounts > 0 and the full amount
\* otherwise; else the single leg (token0, amount0_in) when amount0_in > 0;
\* otherwise the single leg (token1, amount1_in).
C14_QuoteLegs ==
    Derived =>
        LET q == conv.quote_assets
        IN IF FirstBothIn
           THEN /\ Len(q) = 2
                /\ q[1][1] = FirstSwap.token0
                /\ q[2][1] = FirstSwap.token1
                /\ IF LastBothOut
                   THEN /\ FMul(q[1][2], TWO) = FirstSwap.amount0_in
                        /\ FMul(q[2][2], TWO) = FirstSwap.amount1_in
                   ELSE /\ q[1][2] = FirstSwap.amount0_in
                        /\ q[2][2] = FirstSwap.amount1_in
           ELSE IF FirstSwap.amount0_in # ZERO
           THEN q = << <<FirstSwap.token0, FirstSwap.amount0_in>> >>
           ELSE q = << <<FirstSwap.token1, FirstSwap.amount1_in>> >>

\* both in on the first swap, one out only on a different last swap
C14_Witness ==
    /\ Derived
    /\ Len(conv.swaps) >= 2
    /\ FirstBothIn
    /\ ~LastBothOut
    /\ Len(conv.result.trades) = 2
    /\ FirstSwap.amount0_out # ZERO
    /\ FirstSwap.amount1_out # ZERO

\* C15: a returned trade list has (base legs) x (quote legs) trades, at
\* most 4; a trade's base asset is its base leg's outbound asset and its
\* amount that outbound amount, halved exactly when both inbound amounts of
\* the first swap are > 0; in = (10, 20), out = (6, 3) gives the amounts
\* 3, 3, 1.5, 1.5.
C15_TradeCountAndAmounts ==
    Returned =>
        LET trades == conv.result.trades
        IN /\ Len(trades) = Len(BaseLegs) * QuoteLegCount
           /\ Len(trades) <= 4
           /\ \A i \in 1 .. Len(trades) :
                 LET leg == BaseLegs[BaseLegOf(i)]
                 IN /\ trades[i].base_asset = leg[1]
                    /\ IF FirstBothIn
                       THEN FMul(trades[i].amount, TWO) = leg[2]
                       ELSE trades[i].amount = leg[2]
           /\ (/\ FirstSwap.amount0_in = <<10, 1>> /\ FirstSwap.amount1_in = <<20, 1>>
               /\ LastSwap.amount0_out = <<6, 1>> /\ LastSwap.amount1_out = <<3, 1>>)
                 => [i \in 1 .. Len(trades) |-> trades[i].amount]
                        = << <<3, 1>>, <<3, 1>>, <<3, 2>>, <<3, 2>> >>

\* the example, in on the first swap and out on another one
C15_Witness ==
    /\ Returned
    /\ Len(conv.swaps) >= 2
    /\ Len(conv.result.trades) = 4
    /\ FirstSwap.amount0_in = <<10, 1>> /\ FirstSwap.amount1_in = <<20, 1>>
    /\ LastSwap.amount0_out = <<6, 1>> /\ LastSwap.amount1_out = <<3, 1>>
    /\ LastSwap.amount0_in = ZERO /\ LastSwap.amount1_in = ZERO

\* C16: the trades of a transaction carry the indices 0 .. n-1 in output
\* order, the trades of the token0-out leg before those of the token1-out
\* leg and within a base leg in quote-leg order.
C16_TradeIndices ==
    Returned =>
        LET trades == conv.result.trades
        IN \A i \in 1 .. Len(trades) :
              /\ trades[i].trade_index = i - 1
              /\ trades[i].quote_asset = conv.quote_assets[QuoteLegOf(i)][1]
              /\ \A j \in 1 .. Len(trades) :
                    (/\ trades[i].base_asset = LastSwap.token0
                     /\ trades[j].base_asset = LastSwap.token1) => i < j

\* two base legs of two quote legs each: the index runs on to 3
C16_Witness ==
    /\ Returned
    /\ Len(conv.result.trades) = 4
    /\ conv.result.trades[3].base_asset = LastSwap.token1
    /\ conv.result.trades[3].trade_index = 2

\* the token1-out leg alone: its index starts at 0
C16_WitnessToken1Only ==
    /\ Returned
    /\ LastSwap.amount0_out = ZERO
    /\ Len(conv.result.trades) >= 1
    /\ conv.result.trades[1].base_asset = LastSwap.token1

C18_SingleSidedRate ==
    (Derived /\ conv.swaps = <<MakeTxSwap(0, <<100, 0, 0, 40>>)>>) =>
        /\ ~conv.result.err
        /\ Len(conv.result.trades) = 1
        /\ conv.result.trades[1].base_asset = FirstSwap.token1
        /\ conv.result.trades[1].quote_asset = FirstSwap.token0
        /\ conv.result.trades[1].amount = <<40, 1>>
        /\ conv.result.trades[1].rate = <<5, 2>>

-----------------------------------------------------------------------------
(* The derivation's failure, alone and inside a sync request (Spec) *)

\* the amounts with nothing in and something out
NoInboundShapes ==
    {amounts \in TxAmountShapes :
        amounts[1] = 0 /\ amounts[2] = 0 /\ (amounts[3] > 0 \/ amounts[4] > 0)}

\* a transaction of the source whose first swap has nothing in and whose
\* last swap has something out
NoInboundTx(entry) ==
    LET raw == TransactionSwaps(entry)
    IN /\ raw[1].amount0In = 0
       /\ raw[1].amount1In = 0
       /\ raw[Len(raw)].amount0Out > 0 \/ raw[Len(raw)].amount1Out > 0

\* the page a fetching request is about to receive holds such a transaction
NoInboundOnPage(q) ==
    \E k \in 1 .. Len(QuerySwaps(q.param_values)) :
        NoInboundTx(QuerySwaps(q.param_values)[k])

\* groups of one and of two swaps with nothing in on the first swap and
\* something out on the last: the quote leg is (token1, 0) and the
\* derivation raises
C19_Derivation ==
    \A amounts \in NoInboundShapes, other \in TxAmountShapes :
        LET one == <<MakeTxSwap(0, amounts)>>
            two == <<MakeTxSwap(0, <<0, 0, other[3], other[4]>>),
                     MakeTxSwap(1, <<other[1], other[2], amounts[3], amounts[4]>>)>>
        IN /\ QuoteAssets(one) = << <<one[1].token1, ZERO>> >>
           /\ tx_swaps_to_trades(one).err
           /\ tx_swaps_to_trades(two).err

\* a request that receives such a transaction's page ends in that step with
\* the division error: nothing is stored, no range is written, the lock is
\* released
C19_Step ==
    \A p \in Procs :
        (/\ Fetching(proc[p])
         /\ graph
         /\ proc'[p] # proc[p]
         /\ proc'[p].result.status # "RemoteError"
         /\ NoInboundOnPage(proc[p])) =>
            /\ proc'[p].pc = "idle"
            /\ proc'[p].result = [status |-> "ZeroDivisionError", raised_in |-> proc[p].pc]
            /\ amm_swaps' = amm_swaps
            /\ used_query_ranges' = used_query_ranges
            /\ trades_lock' = NoProc

\* C19: with both inbound amounts of the first swap zero and an outbound
\* amount of the last swap > 0 the derivation takes the else branch (quote
\* leg (token1, 0)) and fails with a division by zero instead of returning
\* trades; inside a sync request the error ends the whole call.
C19_ZeroInboundAborts == [](C19_Derivation) /\ [][C19_Step]_vars

\* a request for a1 and a3 that fetched a1's swaps and then failed on a3's
C19_Witness ==
    \E p \in Procs :
        /\ proc[p].result = [status |-> "ZeroDivisionError", raised_in |-> "fetch_new"]
        /\ used_query_ranges["a1"] = NoRange
        /\ used_query_ranges["a2"] # NoRange

-----------------------------------------------------------------------------
(* PriceSpec: _update_assets_prices_in_address_balances *)

Tokens == {"t1", "t2", "t3"}

\* the two tokens of a pool
PoolPairs == {<<"t1", "t2">>, <<"t2", "t3">>, <<"t1", "t3">>}

\* the user's amounts of a pool's two tokens
PoolAmounts == {<<2, 4>>, <<0, 3>>}

\* _get_known_asset_price keeps non-zero prices only (line 258); the
\* subgraph's priceUSD may be zero
KnownPrices == {<<3, 1>>}

UnknownPrices == {ZERO, <<5, 1>>}

\* the dicts from token address to price over some of the tokens
PriceMaps(prices) == UNION {[d -> prices] : d \in SUBSET Tokens}

\* dict.get(key, default)
DictGet(map, key, default) == IF key \in DOMAIN map THEN map[key] ELSE default

\* a pool asset as _get_balances_graph builds it: no price, no value yet
MakePoolAsset(token, amount) ==
    [asset |-> token,
     usd_price |-> ZERO,
     user_balance |-> [amount |-> FVal(amount, 1), usd_value |-> ZERO]]

MakePool(pair, amounts) ==
    [assets |-> <<MakePoolAsset(pair[1], amounts[1]), MakePoolAsset(pair[2], amounts[2])>>,
     user_balance |-> [amount |-> FVal(1, 1), usd_value |-> ZERO]]

\* the venue price looked up first
AssetUsdPrice_VenueFirst(asset, known_asset_price, unknown_asset_price) ==
    DictGet(unknown_asset_price, asset.asset,
            DictGet(known_asset_price, asset.asset, ZERO))

\* lines 623-626
AssetUsdPrice(asset, known_asset_price, unknown_asset_price) ==
    DictGet(known_asset_price, asset.asset,
            DictGet(unknown_asset_price, asset.asset, ZERO))

\* lines 628-632
UpdateAsset(asset, known_asset_price, unknown_asset_price) ==
    LET asset_usd_price == AssetUsdPrice(asset, known_asset_price, unknown_asset_price)
    IN IF asset_usd_price # ZERO
       THEN [asset EXCEPT !.usd_price = asset_usd_price,
                          !.user_balance.usd_value =
                              FMul(asset.user_balance.amount, asset_usd_price)]
       ELSE asset

\* the total assigned, not accumulated: the last asset's value alone
TotalUserBalance_LastOnly(assets, k) ==
    IF k = 0 THEN ZERO ELSE assets[k].user_balance.usd_value

\* total_user_balance over the first k assets (lines 620, 634)
RECURSIVE TotalUserBalance(_, _)
TotalUserBalance(assets, k) ==
    IF k = 0 THEN ZERO
    ELSE FAdd(TotalUserBalance(assets, k - 1), assets[k].user_balance.usd_value)

\* the body of "for lp in lps"
UpdatePool(lp, known_asset_price, unknown_asset_price) ==
    LET assets == [k \in 1 .. Len(lp.assets) |->
                      UpdateAsset(lp.assets[k], known_asset_price, unknown_asset_price)]
    IN [lp EXCEPT !.assets = assets,
                  !.user_balance.usd_value = TotalUserBalance(assets, Len(assets))]

update_assets_prices_in_address_balances(address_balances, known_asset_price, unknown_asset_price) ==
    [a \in DOMAIN address_balances |->
        [i \in 1 .. Len(address_balances[a]) |->
            UpdatePool(address_balances[a][i], known_asset_price, unknown_asset_price)]]

BalanceAddresses == {"a1", "a2"}

PoolCount(address_balances) ==
    Len(address_balances["a1"]) + Len(address_balances["a2"])

PriceInit ==
    /\ SyncInit
    /\ graph
    /\ pager = PagerIdle
    /\ conv = ConvIdle
    /\ bal \in {[pc |-> "input",
                  address_balances |-> [a \in BalanceAddresses |-> <<>>],
                  known_asset_price |-> known,
                  unknown_asset_price |-> unknown] :
                 known \in PriceMaps(KnownPrices), unknown \in PriceMaps(UnknownPrices)}

\* one more pool in an address's balances
AddPool ==
    /\ bal.pc = "input"
    /\ PoolCount(bal.address_balances) < MaxPools
    /\ \E a \in BalanceAddresses, pair \in PoolPairs, amounts \in PoolAmounts :
          bal' = [bal EXCEPT !.address_balances[a] = Append(@, MakePool(pair, amounts))]
    /\ UNCHANGED <<graph, trades_lock, used_query_ranges, amm_swaps, proc, max_to, pager, conv>>

UpdatePrices ==
    /\ bal.pc = "input"
    /\ bal' = [bal EXCEPT
                  !.pc = "updated",
                  !.address_balances =
                      update_assets_prices_in_address_balances(
                          bal.address_balances, bal.known_asset_price,
                          bal.unknown_asset_price)]
    /\ UNCHANGED <<graph, trades_lock, used_query_ranges, amm_swaps, proc, max_to, pager, conv>>

PriceNext == AddPool \/ UpdatePrices

PriceSpec == PriceInit /\ [][PriceNext]_vars

\* the price the claim gives a token: the primary price if the known map
\* has one, else the venue price if that map has one, else none (zero)
ExpectedPrice(token) ==
    IF token \in DOMAIN bal.known_asset_price THEN bal.known_asset_price[token]
    ELSE IF token \in DOMAIN bal.unknown_asset_price THEN bal.unknown_asset_price[token]
    ELSE ZERO

C20_Step ==
    (bal.pc = "input" /\ bal'.pc = "updated") =>
        \A a \in BalanceAddresses :
            /\ Len(bal'.address_balances[a]) = Len(bal.address_balances[a])
            /\ \A i \in 1 .. Len(bal.address_balances[a]) :
                  LET before == bal.address_balances[a][i]
                      after == bal'.address_balances[a][i]
                  IN /\ Len(after.assets) = Len(before.assets)
                     /\ \A k \in 1 .. Len(before.assets) :
                           LET price == ExpectedPrice(before.assets[k].asset)
                               old == before.assets[k]
                               new == after.assets[k]
                           IN /\ new.asset = old.asset
                              /\ new.user_balance.amount = old.user_balance.amount
                              /\ IF price # ZERO
                                 THEN /\ new.usd_price = price
                                      /\ new.user_balance.usd_value =
                                             FMul(old.user_balance.amount, price)
                                 ELSE /\ new.usd_price = old.usd_price
                                      /\ new.user_balance.usd_value =
                                             old.user_balance.usd_value
                     /\ after.user_balance.usd_value =
                           FAdd(after.assets[1].user_balance.usd_value,
                                after.assets[2].user_balance.usd_value)
                     /\ after.user_balance.amount = before.user_balance.amount

\* C20: the price update gives every pool asset the known price of its
\* address if the known map has one, else the venue price if that map has
\* one, else leaves price and USD value as they were (zero); with a
\* non-zero price the USD value becomes amount x price; the pool total is
\* the sum of its assets' USD values, an unpriced asset adding its
\* unchanged value.
C20_PriceReconciliation == [][C20_Step]_vars

\* one pool whose first token both maps price differently and whose second
\* token has no price: the total is the first asset's value alone
C20_Witness ==
    /\ bal.pc = "updated"
    /\ \E a \in BalanceAddresses :
          /\ Len(bal.address_balances[a]) >= 1
          /\ LET lp == bal.address_balances[a][1]
                 first == lp.assets[1].asset
                 second == lp.assets[2].asset
             IN /\ first \in DOMAIN bal.known_asset_price
                /\ first \in DOMAIN bal.unknown_asset_price
                /\ bal.unknown_asset_price[first] # ZERO
                /\ second \notin DOMAIN bal.known_asset_price
                /\ second \in DOMAIN bal.unknown_asset_price
                /\ bal.unknown_asset_price[second] = ZERO
                /\ lp.assets[2].user_balance.amount # ZERO
                /\ lp.user_balance.usd_value = <<6, 1>>

\* the pools of every address, after the update
UpdatedPools ==
    UNION {SeqSet(bal.address_balances[a]) : a \in BalanceAddresses}

\* C21: after reconciliation the aggregate user USD value of every pool of
\* every address is the sum of the user USD values of its assets, priced
\* or not.
C21_PoolTotalIsSum ==
    bal.pc = "updated" =>
        \A lp \in UpdatedPools :
            lp.user_balance.usd_value =
                FAdd(lp.assets[1].user_balance.usd_value, lp.assets[2].user_balance.usd_value)

\* a pool with both assets priced, one by each map, and a pool with one
\* asset priced and one not
C21_Witness ==
    /\ bal.pc = "updated"
    /\ \E lp \in UpdatedPools :
          /\ lp.assets[1].usd_price = <<3, 1>>
          /\ lp.assets[2].usd_price = <<5, 1>>
          /\ lp.user_balance.usd_value = <<26, 1>>
    /\ \E lp \in UpdatedPools :
          /\ lp.assets[1].usd_price = ZERO
          /\ lp.assets[2].usd_price # ZERO
          /\ lp.user_balance.usd_value = lp.assets[2].user_balance.usd_value

-----------------------------------------------------------------------------
(* BalSpec: get_balances *)

\* the tokens get_ethereum_token returns as EthereumToken; the others come
\* as UnknownEthereumToken
KnownTokens == {"t1", "t2"}

AllPools == {MakePool(pair, amounts) : pair \in PoolPairs, amounts \in PoolAmounts}

\* the pool lists of one address, one pool at least
PoolLists == UNION {[1 .. n -> AllPools] : n \in 1 .. MaxPools}

\* Inquirer().find_usd_price: zero stands for no price
Oracles == [KnownTokens -> KnownPrices \cup {ZERO}]

PoolTokens(address_balances) ==
    UNION {{lp.assets[1].asset, lp.assets[2].asset} :
             lp \in UNION {SeqSet(address_balances[a]) : a \in DOMAIN address_balances}}

\* "self.graph and self.premium" without the premium test
IsGraphMode_GraphOnly(has_graph, premium) == has_graph

\* is_graph_mode = self.graph and self.premium
IsGraphMode(has_graph, premium) == has_graph /\ premium

\* known_assets and unknown_assets as both balance readers classify them
KnownAssets(address_balances) == PoolTokens(address_balances) \cap KnownTokens

UnknownAssets(address_balances) == PoolTokens(address_balances) \ KnownTokens

\* every queried price stored in the map, zero or not
KnownPriceEntry_KeepsZero(b, known_asset, asset_usd_price) ==
    [b EXCEPT !.known_asset_price = MapPut(@, known_asset, asset_usd_price)]

\* the asset added to the unknown set whatever its price
KnownPriceEntry_AddsAlways(b, known_asset, asset_usd_price) ==
    IF asset_usd_price # ZERO
    THEN [b EXCEPT !.known_asset_price = MapPut(@, known_asset, asset_usd_price),
                   !.unknown_assets = @ \cup {known_asset}]
    ELSE [b EXCEPT !.unknown_assets = @ \cup {known_asset}]

\* lines 258-267: the price goes into the map, or the asset into the
\* unknown set
KnownPriceEntry(b, known_asset, asset_usd_price) ==
    IF asset_usd_price # ZERO
    THEN [b EXCEPT !.known_asset_price = MapPut(@, known_asset, asset_usd_price)]
    ELSE [b EXCEPT !.unknown_assets = @ \cup {known_asset}]

\* where get_balances goes on once the known assets left to query are `rest`
AfterKnownLookup(rest, is_graph_mode) ==
    IF rest # {} THEN "gb_known"
    ELSE IF is_graph_mode THEN "gb_venue" ELSE "gb_reconcile"

BalInit ==
    /\ SyncInit
    /\ pager = PagerIdle
    /\ conv = ConvIdle
    /\ bal \in {[pc |-> "gb_idle",
                  premium |-> premium,
                  oracle |-> oracle,
                  is_graph_mode |-> FALSE,
                  address_balances |-> [a \in BalanceAddresses |-> <<>>],
                  known_assets |-> {},
                  unknown_assets |-> {},
                  to_query |-> {},
                  known_asset_price |-> EmptyMap,
                  unknown_asset_price |-> EmptyMap,
                  price_queries |-> <<>>,
                  source_calls |-> <<>>,
                  chain_calls |-> 0,
                  updates |-> 0] :
                 premium \in BOOLEAN, oracle \in Oracles}

\* lines 647-659: the positions, through the subgraph or on-chain
GetBalancesStart ==
    /\ bal.pc = "gb_idle"
    /\ \E address \in BalanceAddresses, pools \in PoolLists :
          LET is_graph_mode == IsGraphMode(graph, bal.premium)
              address_balances ==
                  [a \in BalanceAddresses |-> IF a = address THEN pools ELSE <<>>]
          IN bal' = [bal EXCEPT
                        !.is_graph_mode = is_graph_mode,
                        !.address_balances = address_balances,
                        !.known_assets = KnownAssets(address_balances),
                        !.unknown_assets = UnknownAssets(address_balances),
                        !.to_query = KnownAssets(address_balances),
                        !.source_calls =
                            IF is_graph_mode THEN <<"liquidity_positions">> ELSE <<>>,
                        !.chain_calls = IF is_graph_mode THEN 0 ELSE 1,
                        !.pc = AfterKnownLookup(KnownAssets(address_balances),
                                                is_graph_mode)]
    /\ UNCHANGED <<graph, trades_lock, used_query_ranges, amm_swaps, proc, max_to, pager, conv>>

\* one round of the loop of _get_known_asset_price, the set iterated in
\* any order
QueryKnownPrice ==
    /\ bal.pc = "gb_known"
    /\ \E known_asset \in bal.to_query :
          LET asset_usd_price == bal.oracle[known_asset]
              b == KnownPriceEntry(bal, known_asset, asset_usd_price)
          IN bal' = [b EXCEPT
                        !.to_query = @ \ {known_asset},
                        !.price_queries = Append(@, known_asset),
                        !.pc = AfterKnownLookup(bal.to_query \ {known_asset},
                                                bal.is_graph_mode)]
    /\ UNCHANGED <<graph, trades_lock, used_query_ranges, amm_swaps, proc, max_to, pager, conv>>

\* lines 667-672: the venue's prices of today for some of the unknown assets
VenueLookup ==
    /\ bal.pc = "gb_venue"
    /\ \E feed \in PriceMaps(UnknownPrices) :
          /\ DOMAIN feed \subseteq bal.unknown_assets
          /\ bal' = [bal EXCEPT !.unknown_asset_price = feed,
                                !.source_calls = Append(@, "token_day_datas"),
                                !.pc = "gb_reconcile"]
    /\ UNCHANGED <<graph, trades_lock, used_query_ranges, amm_swaps, proc, max_to, pager, conv>>

\* lines 674-680
Reconcile ==
    /\ bal.pc = "gb_reconcile"
    /\ bal' = [bal EXCEPT
                  !.address_balances =
                      update_assets_prices_in_address_balances(
                          bal.address_balances, bal.known_asset_price,
                          bal.unknown_asset_price),
                  !.updates = @ + 1,
                  !.pc = "gb_done"]
    /\ UNCHANGED <<graph, trades_lock, used_query_ranges, amm_swaps, proc, max_to, pager, conv>>

BalNext == GetBalancesStart \/ QueryKnownPrice \/ VenueLookup \/ Reconcile

BalSpec == BalInit /\ [][BalNext]_vars

\* the known-asset lookup of the running get_balances call is over
KnownLookupDone == bal.pc \in {"gb_venue", "gb_reconcile", "gb_done"}

\* the number of times the oracle was asked for a token
PriceQueryCount(token) ==
    Cardinality({k \in 1 .. Len(bal.price_queries) : bal.price_queries[k] = token})

\* C22: the known-asset lookup asks the primary oracle exactly once per
\* known asset; an asset with a zero price gets no entry in the known-price
\* map and is in the unknown set before the venue lookup; an asset with a
\* non-zero price gets that price in the map and is not added to the
\* unknown set.
C22_KnownLookup ==
    /\ \A token \in Tokens : PriceQueryCount(token) <= 1
    /\ KnownLookupDone =>
          /\ \A token \in Tokens :
                PriceQueryCount(token) = IF token \in bal.known_assets THEN 1 ELSE 0
          /\ \A asset \in bal.known_assets :
                IF bal.oracle[asset] = ZERO
                THEN /\ asset \notin DOMAIN bal.known_asset_price
                     /\ asset \in bal.unknown_assets
                ELSE /\ asset \in DOMAIN bal.known_asset_price
                     /\ bal.known_asset_price[asset] = bal.oracle[asset]
                     /\ asset \notin bal.unknown_assets
          /\ DOMAIN bal.known_asset_price \subseteq bal.known_assets
          /\ bal.unknown_assets =
                UnknownAssets(bal.address_balances)
                    \cup {asset \in bal.known_assets : bal.oracle[asset] = ZERO}
    /\ bal.pc = "gb_venue" => bal.source_calls = <<"liquidity_positions">>

\* two known assets, one priced and one not, the venue lookup about to start
C22_Witness ==
    /\ bal.pc = "gb_venue"
    /\ bal.known_assets = KnownTokens
    /\ bal.oracle["t1"] = ZERO
    /\ bal.oracle["t2"] # ZERO
    /\ bal.price_queries = <<"t2", "t1">>

ReturnedAssets == UNION {{lp.assets[1], lp.assets[2]} : lp \in UpdatedPools}

GraphAndPremium == graph /\ bal.premium

\* C25: get_balances uses the query source (positions, venue prices) only
\* when the source initialised and the user is premium; otherwise it reads
\* the balances on-chain, never calls the source and the unknown assets
\* keep a zero price; in both modes the primary-oracle lookup and the
\* price update run.
C25_ModeSelection ==
    bal.pc # "gb_idle" =>
        /\ bal.is_graph_mode = GraphAndPremium
        /\ IF GraphAndPremium
           THEN /\ bal.chain_calls = 0
                /\ bal.source_calls =
                      IF bal.pc \in {"gb_reconcile", "gb_done"}
                      THEN <<"liquidity_positions", "token_day_datas">>
                      ELSE <<"liquidity_positions">>
           ELSE /\ bal.chain_calls = 1
                /\ bal.source_calls = <<>>
                /\ bal.pc # "gb_venue"
                /\ DOMAIN bal.unknown_asset_price = {}
                /\ \A asset \in ReturnedAssets :
                      asset.asset \in bal.unknown_assets =>
                          /\ asset.usd_price = ZERO
                          /\ asset.user_balance.usd_value = ZERO
        /\ bal.pc = "gb_done" =>
              /\ bal.updates = 1
              /\ SeqSet(bal.price_queries) = bal.known_assets
              /\ \A asset \in ReturnedAssets :
                    (asset.asset \in bal.known_assets /\ bal.oracle[asset.asset] # ZERO)
                        => asset.usd_price = bal.oracle[asset.asset]

\* the source initialised, the user not premium: the on-chain path, an
\* unknown token and a priced known token in the returned pools
C25_Witness ==
    /\ bal.pc = "gb_done"
    /\ graph
    /\ ~bal.premium
    /\ \E asset \in ReturnedAssets :
          asset.asset = "t3" /\ asset.user_balance.amount # ZERO
    /\ \E asset \in ReturnedAssets : asset.usd_price # ZERO

-----------------------------------------------------------------------------
(* The sync requests without a query source, the swap store, the lock (Spec) *)

\* C24: with the query source not initialised every trade-history request,
\* get_trades_history or get_trades, returns instead of failing, and no
\* sync range is written and nothing is stored.
C24_NoGraphReturnsEmpty ==
    ~graph =>
        /\ \A p \in Procs : proc[p].result.status \in {"none", "ok"}
        /\ \A a \in Addresses : used_query_ranges[a] = NoRange
        /\ amm_swaps = {}

\* the request as it stands when the page it waits for has been processed
AfterFetchedPage(q) ==
    AfterPage(q, QuerySwaps(q.param_values),
              ProcessPage([err |-> FALSE, trades |-> q.trades], QuerySwaps(q.param_values),
                          BatchOf(q)[q.idx], 1).trades)

\* no two entries of a list of swaps have one identity
DistinctIdentities(swaps) ==
    \A m, n \in 1 .. Len(swaps) :
        SwapIdentity(swaps[m]) = SwapIdentity(swaps[n]) => m = n

\* the store holds one record per identity
C26_Inv ==
    \A s, t \in amm_swaps : SwapIdentity(s) = SwapIdentity(t) => s = t

\* a call that returns hands the store a list of distinct swaps, and the
\* store then holds them next to the ones it held
C26_Step ==
    \A p \in Procs :
        (Fetching(proc[p]) /\ graph /\ proc'[p].result.status = "ok") =>
            LET handed == AllSwapsList(AfterFetchedPage(proc[p]))
            IN /\ DistinctIdentities(handed)
               /\ amm_swaps' = amm_swaps \cup SeqSet(handed)

LiveAddressLists == {<<"a1", "a3">>, <<"a2">>}

LiveEnter(p) ==
    \E addresses \in LiveAddressLists, reset_db_data \in BOOLEAN :
        EnterWith(p, addresses, MaxTs, reset_db_data)

LiveNext ==
    \E p \in Procs :
        \/ CallGetTrades(p)
        \/ CallGetTradesHistory(p)
        \/ LiveEnter(p)
        \/ FetchPage(p)
        \/ FetchFails(p)

\* a request inside the with-block keeps running, and the lock is handed to
\* every waiting request in turn
LiveSpec ==
    /\ Init
    /\ [][LiveNext]_vars
    /\ \A p \in Procs :
          /\ WF_vars(FetchFails(p) \/ FetchPage(p))
          /\ SF_vars(LiveEnter(p))

C27_Inv ==
    /\ trades_lock \in Procs \cup {NoProc}
    /\ \A p \in Procs : trades_lock = p => Fetching(proc[p])

\* C27: the lock is released whenever a sync call ends, by a return or by
\* an error; the holder's call ends, and a request waiting for the lock
\* eventually acquires it.
C27_LockReleased ==
    /\ [](C27_Inv)
    /\ \A p \in Procs : (trades_lock = p) ~> (trades_lock # p)
    /\ \A p \in Procs : (proc[p].pc = "wait") ~> (trades_lock = p)

\* a request waits at the lock after the other one's call was aborted
C27_Witness ==
    \E p, o \in Procs :
        /\ p # o
        /\ proc[p].pc = "wait"
        /\ trades_lock = NoProc
        /\ proc[o].result.status \in {"RemoteError", "ZeroDivisionError"}

-----------------------------------------------------------------------------
(* The boundary amounts of a transaction's trades (TxSpec) *)

\* the amount of an asset bought by the trades: the amounts of the trades
\* with that base asset
RECURSIVE BoughtSum(_, _)
BoughtSum(trades, asset) ==
    IF trades = <<>> THEN ZERO
    ELSE FAdd(IF Head(trades).base_asset = asset THEN Head(trades).amount ELSE ZERO,
              BoughtSum(Tail(trades), asset))

\* the amount of an asset sold by the trades: bought / rate of the trades
\* with that quote asset
RECURSIVE SoldSum(_, _)
SoldSum(trades, asset) ==
    IF trades = <<>> THEN ZERO
    ELSE FAdd(IF Head(trades).quote_asset = asset
              THEN FDiv(Head(trades).amount, Head(trades).rate) ELSE ZERO,
              SoldSum(Tail(trades), asset))

\* what the last swap sends out of an asset, what the first swap takes in
OutboundOf(asset) ==
    IF asset = LastSwap.token0 THEN LastSwap.amount0_out
    ELSE IF asset = LastSwap.token1 THEN LastSwap.amount1_out
    ELSE ZERO

InboundOf(asset) ==
    IF asset = FirstSwap.token0 THEN FirstSwap.amount0_in
    ELSE IF asset = FirstSwap.token1 THEN FirstSwap.amount1_in
    ELSE ZERO

BoundaryAssets == {FirstSwap.token0, FirstSwap.token1, LastSwap.token0, LastSwap.token1}

AmountsConserved ==
    \A asset \in BoundaryAssets :
        /\ BoughtSum(conv.result.trades, asset) = OutboundOf(asset)
        /\ SoldSum(conv.result.trades, asset) = InboundOf(asset)

\* C28: the trades derived from a transaction's swaps with non-zero quote
\* amounts conserve the boundary amounts: per asset, the bought amounts of
\* the trades with that base asset add up to the last swap's outbound
\* amount and the sold amounts (bought / rate) of the trades with that
\* quote asset add up to the first swap's inbound amount, in every
\* combination of single/both inbound and single/both outbound.
C28_BoundaryAmountsConserved ==
    (Returned /\ conv.result.trades # <<>>) => AmountsConserved

\* the amounts are conserved whenever the first swap has both amounts in
\* or the last swap has one amount out
C28_ConservedOtherwise ==
    (Returned /\ conv.result.trades # <<>> /\ (FirstBothIn \/ ~LastBothOut))
        => AmountsConserved

\* one amount in, both amounts out: the inbound amount is sold twice
C28_SoldTwice ==
    (Returned /\ ~FirstBothIn /\ LastBothOut) =>
        \A asset \in BoundaryAssets :
            /\ BoughtSum(conv.result.trades, asset) = OutboundOf(asset)
            /\ SoldSum(conv.result.trades, asset) = FMul(TWO, InboundOf(asset))

=========================================================================
